---- MODULE Spec2Model ----
(***************************************************************************)
(* Model of sos/src/network.c: the picoTCP device shim of SOS.             *)
(*                                                                         *)
(* The file holds two builds of the shim.  The one that is compiled        *)
(* ("polling", lines 59-159) forwards send and poll straight to the        *)
(* ethernet driver.  The one under `#if 0` ("irq", lines 161-340) keeps a  *)
(* pool of DMA buffers, a ring of free buffer indices, a ring of received  *)
(* frames and a counter of transmit buffers, and is driven by the driver's *)
(* completion callbacks.  `mode` says which build the program is.          *)
(***************************************************************************)
EXTENDS Integers, Sequences, FiniteSets, TLC

(***************************************************************************)
(* Sizes.  The source sets N_DMA_BUFS = 512, N_RX_BUFS = 256,              *)
(* N_TX_BUFS = 128 and BUF_SIZE = 2048 (lines 169-172); the model keeps    *)
(* the names, keeps N_RX_BUFS and N_TX_BUFS below N_DMA_BUFS, and scales   *)
(* the values down.                                                        *)
(***************************************************************************)
N_DMA_BUFS == 3

N_RX_BUFS == 2

N_TX_BUFS == 2

BUF_SIZE == 2

\* Largest loop_score the stack passes to poll.
MaxBudget == 2

\* Largest number of buffers one received frame is reported to span.
MaxSplit == 2

\* Largest number of frames waiting in the driver (polling build).
MaxDrvFrames == 2

ETHIF_NOERROR == "ETHIF_NOERROR"

ETHIF_ERROR == "ETHIF_ERROR"

\* Lengths the stack asks send to transmit: the shortest, the longest that
\* fits a buffer, and one too long.
SendLens == {1, BUF_SIZE, BUF_SIZE + 1}

\* Lengths of frames the device receives: the shortest and the longest.
RxLens == {1, BUF_SIZE}

\* Buffer sizes the driver asks pico_allocate_rx_buf for.
RxBufSizes == {BUF_SIZE, BUF_SIZE + 1}

\* Indices into buffers.dma_bufs.
BufNos == 0..(N_DMA_BUFS - 1)

\* What alloc_dma_buf can return and free_dma_buf accepts: an index or -1.
Handles == (-1)..(N_DMA_BUFS - 1)

\* What the build can do on the out-of-bounds access dma_bufs[-1].
UBOutcomes == {"continue", "crash"}

(***************************************************************************)
(* mode        which build runs: "polling" or "irq"                        *)
(* free_pool   buffers.free_pool: ring of free indices into dma_bufs       *)
(* rx_queue    buffers.rx_queue: ring of rx_t (buf_no, length)             *)
(* n_tx_bufs   buffers.n_tx_bufs                                           *)
(* tx_bufs     for each handle, how many transmits the driver has accepted *)
(*             with it as cookie and not yet completed                     *)
(* tx_lost     for each handle, how many times send allocated it for a     *)
(*             frame the driver did not accept (no completion will come)   *)
(* dev_rx      the cookies the device holds for receive                    *)
(* rx          the local `rx` of pico_eth_poll: the descriptor read from   *)
(*             rx_queue and not yet released (empty between polls)         *)
(* drv_frames  polling build: lengths of the frames waiting in the driver  *)
(* aborted     the program has stopped on a failed assert or a crash       *)
(* op          the last handler called and its arguments                   *)
(* ret         what it returned                                            *)
(* events      what it did, in order                                       *)
(* iters       how many times it entered the body of its while loop        *)
(* pc, reg     where the control thread is inside pico_eth_send and the    *)
(*             value of n_tx_bufs it has loaded, when send is run one      *)
(*             memory access at a time (SpecRace); "idle" and 0 otherwise  *)
(***************************************************************************)
VARIABLES mode, free_pool, rx_queue, n_tx_bufs, tx_bufs, tx_lost, dev_rx, rx,
          drv_frames, aborted, op, ret, events, iters, pc, reg

vars == <<mode, free_pool, rx_queue, n_tx_bufs, tx_bufs, tx_lost, dev_rx, rx,
          drv_frames, aborted, op, ret, events, iters, pc, reg>>

(***************************************************************************)
(* ringbuffer.h: a bounded FIFO.  A ring initialised for S elements holds  *)
(* at most S.                                                              *)
(***************************************************************************)
bufferInit == <<>>

isBufferEmpty(BUF) == Len(BUF) = 0

isBufferFull(BUF, S) == Len(BUF) >= S

bufferWrite(BUF, ELEM) == Append(BUF, ELEM)

\* bufferRead yields the oldest element ...
bufferReadElem(BUF) == Head(BUF)

\* ... and drops it from the ring.
bufferReadRest(BUF) == Tail(BUF)

(***************************************************************************)
(* One thing a handler did: a cache operation, a copy, a delivery to the   *)
(* stack, a ring operation.  `events` is what the last handler did, in     *)
(* order.                                                                  *)
(***************************************************************************)
Ev(what, buf_no, len) == [ev |-> what, buf |-> buf_no, len |-> len]

\* The program stops: a failed assert(), or a crash.
abort(s) == [s EXCEPT !.aborted = TRUE]

\* Number of occurrences of e in the sequence q.
Count(q, e) == Cardinality({i \in 1..Len(q) : q[i] = e})

(***************************************************************************)
(* The handlers are operators on a record s of the program's state at      *)
(* entry; s.val is the value the function returns and s.events what it     *)
(* did.  A handler that has aborted does nothing more.                     *)
(***************************************************************************)
Entry == [free_pool |-> free_pool, rx_queue |-> rx_queue, n_tx_bufs |-> n_tx_bufs,
          tx_bufs |-> tx_bufs, tx_lost |-> tx_lost, dev_rx |-> dev_rx, rx |-> rx,
          drv_frames |-> drv_frames, aborted |-> aborted,
          val |-> 0, events |-> <<>>, iters |-> 0]

\* The physical address of dma_bufs[buf_no]: distinct and never 0.
paddr(buf_no) == buf_no + 1

\* alloc_dma_buf with a slip: the index is read but left in the ring.
alloc_dma_buf_peek(s) ==
    IF isBufferEmpty(s.free_pool)
    THEN [s EXCEPT !.val = -1]
    ELSE [s EXCEPT !.val = bufferReadElem(s.free_pool)]

\* remove a buffer from the pool of dma bufs
alloc_dma_buf(s) ==
    IF isBufferEmpty(s.free_pool)
    THEN [s EXCEPT !.val = -1]
    ELSE [s EXCEPT !.val = bufferReadElem(s.free_pool),
                   !.free_pool = bufferReadRest(s.free_pool)]

free_dma_buf(s, buf_no) ==
    IF ~(buf_no < N_DMA_BUFS) THEN abort(s)
    ELSE IF isBufferFull(s.free_pool, N_DMA_BUFS) THEN abort(s)
    ELSE [s EXCEPT !.free_pool = bufferWrite(s.free_pool, buf_no),
                   !.events = Append(s.events, Ev("free", buf_no, 0))]

\* init_buffers with a slip: the loop stops one index short.
init_buffers_short ==
    [free_pool |-> [i \in 1..(N_DMA_BUFS - 1) |-> i - 1],
     rx_queue |-> bufferInit,
     n_tx_bufs |-> 0]

\* The state init_buffers leaves: both rings created, every index written
\* to the free pool in order, the counter zeroed by the memset.
init_buffers ==
    [free_pool |-> [i \in 1..N_DMA_BUFS |-> i - 1],
     rx_queue |-> bufferInit,
     n_tx_bufs |-> 0]

\* pico_allocate_rx_buf with a slip: the buffer goes to the device without
\* the cache invalidate.
pico_allocate_rx_buf_noinval(s, buf_size) ==
    IF buf_size > BUF_SIZE THEN [s EXCEPT !.val = 0]
    ELSE LET a == alloc_dma_buf(s)
             buf_no == a.val
         IN IF buf_no = -1 THEN [a EXCEPT !.val = 0]
            ELSE [a EXCEPT !.dev_rx = a.dev_rx \cup {buf_no},
                           !.val = paddr(buf_no)]

pico_allocate_rx_buf(s, buf_size) ==
    IF buf_size > BUF_SIZE THEN [s EXCEPT !.val = 0]
    ELSE LET a == alloc_dma_buf(s)
             buf_no == a.val
         IN IF buf_no = -1 THEN [a EXCEPT !.val = 0]
            ELSE [a EXCEPT !.events = Append(a.events, Ev("invalidate", buf_no, BUF_SIZE)),
                           !.dev_rx = a.dev_rx \cup {buf_no},
                           !.val = paddr(buf_no)]

\* The loop of pico_rx_complete over a split frame: cookies i..num_bufs.
RECURSIVE FreeCookies(_, _, _)
FreeCookies(s, cookies, i) ==
    IF i > Len(cookies) THEN s
    ELSE LET f == free_dma_buf(s, cookies[i])
         IN IF f.aborted THEN f
            ELSE FreeCookies([f EXCEPT !.dev_rx = f.dev_rx \ {cookies[i]}], cookies, i + 1)

\* pico_rx_complete with a slip: the queue entry records the size of the
\* buffer, not the length of the frame.
pico_rx_complete_bufsize(s, cookies, lens) ==
    IF Len(cookies) > 1 THEN FreeCookies(s, cookies, 1)
    ELSE IF isBufferFull(s.rx_queue, N_RX_BUFS) THEN abort(s)
    ELSE LET r == [buf_no |-> cookies[1], length |-> BUF_SIZE]
         IN [s EXCEPT !.rx_queue = bufferWrite(s.rx_queue, r),
                      !.dev_rx = s.dev_rx \ {cookies[1]},
                      !.events = Append(s.events, Ev("enqueue", r.buf_no, r.length))]

pico_rx_complete(s, cookies, lens) ==
    IF Len(cookies) > 1 THEN FreeCookies(s, cookies, 1)
    ELSE IF isBufferFull(s.rx_queue, N_RX_BUFS) THEN abort(s)
    ELSE LET r == [buf_no |-> cookies[1], length |-> lens[1]]
         IN [s EXCEPT !.rx_queue = bufferWrite(s.rx_queue, r),
                      !.dev_rx = s.dev_rx \ {cookies[1]},
                      !.events = Append(s.events, Ev("enqueue", r.buf_no, r.length))]

pico_tx_complete(s, cookie) ==
    LET f == free_dma_buf(s, cookie)
    IN IF f.aborted THEN f
       ELSE [f EXCEPT !.n_tx_bufs = f.n_tx_bufs - 1,
                      !.tx_bufs[cookie] = f.tx_bufs[cookie] - 1]

\* pico_eth_send with a slip: the test of the counter against N_TX_BUFS is
\* missing.
pico_eth_send_irq_nolimit(s, len, ub, result) ==
    IF len > BUF_SIZE THEN [s EXCEPT !.val = 0]
    ELSE LET a == alloc_dma_buf(s)
             buf_no == a.val
             b == [a EXCEPT !.n_tx_bufs = a.n_tx_bufs + 1]
         IN IF buf_no = -1 /\ ub = "crash"
            THEN abort([b EXCEPT !.tx_lost[buf_no] = b.tx_lost[buf_no] + 1])
            ELSE LET c == [b EXCEPT !.events = b.events \o <<Ev("memcpy", buf_no, len),
                                                             Ev("clean", buf_no, len)>>,
                                    !.val = len]
                 IN IF result = ETHIF_NOERROR
                    THEN [c EXCEPT !.tx_bufs[buf_no] = c.tx_bufs[buf_no] + 1]
                    ELSE [c EXCEPT !.tx_lost[buf_no] = c.tx_lost[buf_no] + 1]

\* pico_eth_send with a slip: the test of len against BUF_SIZE is missing.
pico_eth_send_irq_nolen(s, len, ub, result) ==
    IF s.n_tx_bufs = N_TX_BUFS THEN [s EXCEPT !.val = 0]
    ELSE LET a == alloc_dma_buf(s)
             buf_no == a.val
             b == [a EXCEPT !.n_tx_bufs = a.n_tx_bufs + 1]
         IN IF buf_no = -1 /\ ub = "crash"
            THEN abort([b EXCEPT !.tx_lost[buf_no] = b.tx_lost[buf_no] + 1])
            ELSE LET c == [b EXCEPT !.events = b.events \o <<Ev("memcpy", buf_no, len),
                                                             Ev("clean", buf_no, len)>>,
                                    !.val = len]
                 IN IF result = ETHIF_NOERROR
                    THEN [c EXCEPT !.tx_bufs[buf_no] = c.tx_bufs[buf_no] + 1]
                    ELSE [c EXCEPT !.tx_lost[buf_no] = c.tx_lost[buf_no] + 1]

\* pico_eth_send with a slip: the size of the buffer is returned, not the
\* length copied into it.
pico_eth_send_irq_bufsize(s, len, ub, result) ==
    IF len > BUF_SIZE THEN [s EXCEPT !.val = 0]
    ELSE IF s.n_tx_bufs = N_TX_BUFS THEN [s EXCEPT !.val = 0]
    ELSE LET a == alloc_dma_buf(s)
             buf_no == a.val
             b == [a EXCEPT !.n_tx_bufs = a.n_tx_bufs + 1]
         IN IF buf_no = -1 /\ ub = "crash"
            THEN abort([b EXCEPT !.tx_lost[buf_no] = b.tx_lost[buf_no] + 1])
            ELSE LET c == [b EXCEPT !.events = b.events \o <<Ev("memcpy", buf_no, len),
                                                             Ev("clean", buf_no, len)>>,
                                    !.val = BUF_SIZE]
                 IN IF result = ETHIF_NOERROR
                    THEN [c EXCEPT !.tx_bufs[buf_no] = c.tx_bufs[buf_no] + 1]
                    ELSE [c EXCEPT !.tx_lost[buf_no] = c.tx_lost[buf_no] + 1]

\* The irq build's send.  ub is what the build does when buf_no is -1 and
\* dma_bufs[-1] is read and written through.  result is what the driver's
\* transmit primitive makes of the frame; the call that would report it
\* (eth_raw_tx, line 312) is commented out, so send never sees it and the
\* value only decides whether a completion will follow.
pico_eth_send_irq(s, len, ub, result) ==
    IF len > BUF_SIZE THEN [s EXCEPT !.val = 0]
    ELSE IF s.n_tx_bufs = N_TX_BUFS THEN [s EXCEPT !.val = 0]
    ELSE LET a == alloc_dma_buf(s)
             buf_no == a.val
             b == [a EXCEPT !.n_tx_bufs = a.n_tx_bufs + 1]
         IN IF buf_no = -1 /\ ub = "crash"
            THEN abort([b EXCEPT !.tx_lost[buf_no] = b.tx_lost[buf_no] + 1])
            ELSE LET c == [b EXCEPT !.events = b.events \o <<Ev("memcpy", buf_no, len),
                                                             Ev("clean", buf_no, len)>>,
                                    !.val = len]
                 IN IF result = ETHIF_NOERROR
                    THEN [c EXCEPT !.tx_bufs[buf_no] = c.tx_bufs[buf_no] + 1]
                    ELSE [c EXCEPT !.tx_lost[buf_no] = c.tx_lost[buf_no] + 1]

\* pico_eth_poll with a slip: an empty queue still costs one unit of the
\* budget.
RECURSIVE pico_eth_poll_irq_charge(_, _)
pico_eth_poll_irq_charge(s, loop_score) ==
    IF ~(loop_score > 0) THEN [s EXCEPT !.val = loop_score]
    ELSE IF isBufferEmpty(s.rx_queue)
    THEN [s EXCEPT !.val = loop_score - 1, !.iters = s.iters + 1]
    ELSE LET r == bufferReadElem(s.rx_queue)
             d == [s EXCEPT !.rx_queue = bufferReadRest(s.rx_queue),
                            !.iters = s.iters + 1,
                            !.rx = <<r>>,
                            !.events = s.events \o <<Ev("invalidate", r.buf_no, r.length),
                                                    Ev("recv", r.buf_no, r.length)>>]
             f == free_dma_buf(d, r.buf_no)
         IN IF f.aborted THEN f
            ELSE pico_eth_poll_irq_charge([f EXCEPT !.rx = <<>>], loop_score - 1)

\* pico_eth_poll with a slip: loop_score-- is missing.
RECURSIVE pico_eth_poll_irq_nodec(_, _)
pico_eth_poll_irq_nodec(s, loop_score) ==
    IF ~(loop_score > 0) THEN [s EXCEPT !.val = loop_score]
    ELSE IF isBufferEmpty(s.rx_queue)
    THEN [s EXCEPT !.val = loop_score, !.iters = s.iters + 1]
    ELSE LET r == bufferReadElem(s.rx_queue)
             d == [s EXCEPT !.rx_queue = bufferReadRest(s.rx_queue),
                            !.iters = s.iters + 1,
                            !.rx = <<r>>,
                            !.events = s.events \o <<Ev("invalidate", r.buf_no, r.length),
                                                    Ev("recv", r.buf_no, r.length)>>]
             f == free_dma_buf(d, r.buf_no)
         IN IF f.aborted THEN f
            ELSE pico_eth_poll_irq_nodec([f EXCEPT !.rx = <<>>], loop_score)

\* The irq build's poll.
RECURSIVE pico_eth_poll_irq(_, _)
pico_eth_poll_irq(s, loop_score) ==
    IF ~(loop_score > 0) THEN [s EXCEPT !.val = loop_score]
    ELSE IF isBufferEmpty(s.rx_queue)
    THEN [s EXCEPT !.val = loop_score, !.iters = s.iters + 1]
    ELSE LET r == bufferReadElem(s.rx_queue)
             d == [s EXCEPT !.rx_queue = bufferReadRest(s.rx_queue),
                            !.iters = s.iters + 1,
                            !.rx = <<r>>,
                            !.events = s.events \o <<Ev("invalidate", r.buf_no, r.length),
                                                    Ev("recv", r.buf_no, r.length)>>]
             f == free_dma_buf(d, r.buf_no)
         IN IF f.aborted THEN f
            ELSE pico_eth_poll_irq([f EXCEPT !.rx = <<>>], loop_score - 1)

(***************************************************************************)
(* The polling build.  The ethernet driver (ethif_send, ethif_recv) is not *)
(* part of network.c; it is modelled by its interface: a send reports an   *)
(* error code, a receive reports an error, no frame (length 0), or hands   *)
(* the oldest waiting frame to the receive callback and reports its        *)
(* length.                                                                 *)
(***************************************************************************)
ethif_send(len, result) == result

\* Called by ethernet driver when a frame is received (inside an ethif_recv())
raw_recv_callback(s, in_packet, len) ==
    [s EXCEPT !.events = Append(s.events, Ev("recv", in_packet, len))]

ethif_recv(s, fail) ==
    IF fail THEN [s |-> s, retval |-> ETHIF_ERROR, len |-> 0]
    ELSE IF s.drv_frames = <<>> THEN [s |-> s, retval |-> ETHIF_NOERROR, len |-> 0]
    ELSE [s |-> raw_recv_callback([s EXCEPT !.drv_frames = Tail(s.drv_frames)],
                                  -1, Head(s.drv_frames)),
          retval |-> ETHIF_NOERROR, len |-> Head(s.drv_frames)]

pico_eth_send(s, len, result) ==
    IF ethif_send(len, result) # ETHIF_NOERROR
    THEN [s EXCEPT !.val = 0]
    ELSE [s EXCEPT !.val = len]

\* The loop of the polling build's poll.  n counts the calls of ethif_recv;
\* the driver fails the err_at-th of them (none when err_at is 0).
RECURSIVE PollLoop(_, _, _, _)
PollLoop(s, loop_score, n, err_at) ==
    IF ~(loop_score > 0) THEN [s EXCEPT !.val = loop_score]
    ELSE LET r == ethif_recv([s EXCEPT !.iters = s.iters + 1], n = err_at)
         IN IF r.retval = ETHIF_ERROR \/ r.len = 0
            THEN [r.s EXCEPT !.val = loop_score]
            ELSE PollLoop(r.s, loop_score - 1, n + 1, err_at)

pico_eth_poll(s, loop_score, err_at) == PollLoop(s, loop_score, 1, err_at)

(***************************************************************************)
(* The state machine.  Each action is one call of a handler, by the stack  *)
(* (send, poll) or by the driver (the three callbacks of the irq build),   *)
(* or the arrival of a frame at the driver of the polling build.           *)
(***************************************************************************)
\* The locals of a send that is not running.
NoLocals == [len |-> 0, result |-> ETHIF_NOERROR, buf_no |-> 0, n |-> 0]

Init ==
    /\ mode \in {"polling", "irq"}
    /\ free_pool = IF mode = "irq" THEN init_buffers.free_pool ELSE <<>>
    /\ rx_queue = IF mode = "irq" THEN init_buffers.rx_queue ELSE <<>>
    /\ n_tx_bufs = IF mode = "irq" THEN init_buffers.n_tx_bufs ELSE 0
    /\ tx_bufs = [h \in Handles |-> 0]
    /\ tx_lost = [h \in Handles |-> 0]
    /\ dev_rx = {}
    /\ rx = <<>>
    /\ drv_frames = <<>>
    /\ aborted = FALSE
    /\ op = [name |-> "init", args |-> <<>>]
    /\ ret = 0
    /\ events = <<>>
    /\ iters = 0
    /\ pc = "idle"
    /\ reg = NoLocals

\* The state a handler leaves becomes the program's state.
Return(s, name, args) ==
    /\ free_pool' = s.free_pool
    /\ rx_queue' = s.rx_queue
    /\ n_tx_bufs' = s.n_tx_bufs
    /\ tx_bufs' = s.tx_bufs
    /\ tx_lost' = s.tx_lost
    /\ dev_rx' = s.dev_rx
    /\ rx' = s.rx
    /\ drv_frames' = s.drv_frames
    /\ aborted' = s.aborted
    /\ ret' = s.val
    /\ events' = s.events
    /\ iters' = s.iters
    /\ op' = [name |-> name, args |-> args]
    /\ mode' = mode

\* A handler that runs from entry to return in one step.
Commit(s, name, args) == Return(s, name, args) /\ UNCHANGED <<pc, reg>>

\* Sequences of k distinct cookies held by the device.
CookieSeqs(k) == {c \in [1..k -> dev_rx] : \A i, j \in 1..k : i # j => c[i] # c[j]}

SendPolling ==
    /\ mode = "polling" /\ ~aborted
    /\ \E len \in SendLens, result \in {ETHIF_NOERROR, ETHIF_ERROR} :
          Commit(pico_eth_send(Entry, len, result), "send", <<len, result>>)

PollPolling ==
    /\ mode = "polling" /\ ~aborted
    /\ \E loop_score \in 0..MaxBudget, err_at \in 0..MaxBudget :
          Commit(pico_eth_poll(Entry, loop_score, err_at), "poll", <<loop_score, err_at>>)

\* A frame arrives at the device and waits in the driver.
FrameArrives ==
    /\ mode = "polling" /\ ~aborted
    /\ Len(drv_frames) < MaxDrvFrames
    /\ \E len \in RxLens :
          Commit([Entry EXCEPT !.drv_frames = Append(drv_frames, len)], "arrive", <<len>>)

SendIrq ==
    /\ mode = "irq" /\ ~aborted
    /\ \E len \in SendLens, ub \in UBOutcomes, result \in {ETHIF_NOERROR, ETHIF_ERROR} :
          Commit(pico_eth_send_irq(Entry, len, ub, result), "send", <<len, result>>)

PollIrq ==
    /\ mode = "irq" /\ ~aborted
    /\ \E loop_score \in 0..MaxBudget :
          Commit(pico_eth_poll_irq(Entry, loop_score), "poll", <<loop_score>>)

\* The driver asks for a receive buffer.
AllocateRxBuf ==
    /\ mode = "irq" /\ ~aborted
    /\ \E buf_size \in RxBufSizes :
          Commit(pico_allocate_rx_buf(Entry, buf_size), "allocate_rx_buf", <<buf_size>>)

\* The driver reports a received frame in buffers it holds.
RxComplete ==
    /\ mode = "irq" /\ ~aborted
    /\ \E num_bufs \in 1..MaxSplit :
          \E cookies \in CookieSeqs(num_bufs), len \in RxLens :
             LET lens == [i \in 1..num_bufs |-> len]
             IN Commit(pico_rx_complete(Entry, cookies, lens), "rx_complete",
                       <<num_bufs, cookies, lens>>)

\* The driver reports that a pending transmit has finished.
TxComplete ==
    /\ mode = "irq" /\ ~aborted
    /\ \E cookie \in Handles :
          /\ tx_bufs[cookie] > 0
          /\ Commit(pico_tx_complete(Entry, cookie), "tx_complete", <<cookie>>)

Next ==
    \/ SendPolling
    \/ PollPolling
    \/ FrameArrives
    \/ SendIrq
    \/ PollIrq
    \/ AllocateRxBuf
    \/ RxComplete
    \/ TxComplete

Spec == Init /\ [][Next]_vars

(***************************************************************************)
(* The irq build with the send of the control thread taken in the steps    *)
(* between which an interrupt can be served.  The driver's callbacks run   *)
(* in the interrupt handler, from entry to return, wherever the thread is; *)
(* poll runs on the thread, so only when no send is under way.  pc is the  *)
(* thread's position in pico_eth_send and reg holds its locals; n is the   *)
(* value of buffers.n_tx_bufs loaded by n_tx_bufs++, which is a plain int  *)
(* read, add and write with no lock and no atomic.                         *)
(***************************************************************************)
InitRace == Init /\ mode = "irq"

\* pico_eth_send from the store of n_tx_bufs++ to its return.
pico_eth_send_irq_store(s, len, buf_no, n, ub, result) ==
    LET b == [s EXCEPT !.n_tx_bufs = n + 1]
    IN IF buf_no = -1 /\ ub = "crash"
       THEN abort([b EXCEPT !.tx_lost[buf_no] = b.tx_lost[buf_no] + 1])
       ELSE LET c == [b EXCEPT !.events = b.events \o <<Ev("memcpy", buf_no, len),
                                                        Ev("clean", buf_no, len)>>,
                               !.val = len]
            IN IF result = ETHIF_NOERROR
               THEN [c EXCEPT !.tx_bufs[buf_no] = c.tx_bufs[buf_no] + 1]
               ELSE [c EXCEPT !.tx_lost[buf_no] = c.tx_lost[buf_no] + 1]

\* The two tests at the head of pico_eth_send: return 0, or go on.
SendCheck ==
    /\ mode = "irq" /\ ~aborted /\ pc = "idle"
    /\ \E len \in SendLens, result \in {ETHIF_NOERROR, ETHIF_ERROR} :
          IF len > BUF_SIZE \/ n_tx_bufs = N_TX_BUFS
          THEN Commit([Entry EXCEPT !.val = 0], "send", <<len, result>>)
          ELSE /\ pc' = "alloc"
               /\ reg' = [NoLocals EXCEPT !.len = len, !.result = result]
               /\ UNCHANGED <<mode, free_pool, rx_queue, n_tx_bufs, tx_bufs, tx_lost,
                              dev_rx, rx, drv_frames, aborted, op, ret, events, iters>>

\* buf_no = alloc_dma_buf();
SendAlloc ==
    /\ mode = "irq" /\ ~aborted /\ pc = "alloc"
    /\ LET a == alloc_dma_buf(Entry)
       IN /\ free_pool' = a.free_pool
          /\ reg' = [reg EXCEPT !.buf_no = a.val]
    /\ pc' = "load"
    /\ UNCHANGED <<mode, rx_queue, n_tx_bufs, tx_bufs, tx_lost,
                   dev_rx, rx, drv_frames, aborted, op, ret, events, iters>>

\* buffers.n_tx_bufs++: the read.
SendLoad ==
    /\ mode = "irq" /\ ~aborted /\ pc = "load"
    /\ reg' = [reg EXCEPT !.n = n_tx_bufs]
    /\ pc' = "store"
    /\ UNCHANGED <<mode, free_pool, rx_queue, n_tx_bufs, tx_bufs, tx_lost,
                   dev_rx, rx, drv_frames, aborted, op, ret, events, iters>>

\* buffers.n_tx_bufs++: the write; then the copy, the clean and the return.
SendStore ==
    /\ mode = "irq" /\ ~aborted /\ pc = "store"
    /\ \E ub \in UBOutcomes :
          Return(pico_eth_send_irq_store(Entry, reg.len, reg.buf_no, reg.n, ub, reg.result),
                 "send", <<reg.len, reg.result>>)
    /\ pc' = "idle"
    /\ reg' = NoLocals

\* pico_eth_poll on the control thread, between sends.
PollThread == pc = "idle" /\ PollIrq

NextRace ==
    \/ SendCheck
    \/ SendAlloc
    \/ SendLoad
    \/ SendStore
    \/ PollThread
    \/ AllocateRxBuf
    \/ RxComplete
    \/ TxComplete

SpecRace == InitRace /\ [][NextRace]_vars

(***************************************************************************)
(* Where a handle is.  The five states of a buffer are read off the        *)
(* program's state: Free is an entry of the free pool ring; AllocatedForTx *)
(* is allocated by send with no completion to come; InFlightTx is a        *)
(* pending transmit; OwnedByDeviceRx is a cookie held by the device;       *)
(* QueuedForStack is an entry of the rx queue or the descriptor poll is    *)
(* dispatching.                                                            *)
(***************************************************************************)
FreeCount(b) == Count(free_pool, b)

AllocatedForTxCount(b) == tx_lost[b]

InFlightTxCount(b) == tx_bufs[b]

OwnedByDeviceRxCount(b) == IF b \in dev_rx THEN 1 ELSE 0

QueuedForStackCount(b) ==
    Cardinality({i \in 1..Len(rx_queue) : rx_queue[i].buf_no = b})
    + Cardinality({i \in 1..Len(rx) : rx[i].buf_no = b})

Free == {b \in BufNos : FreeCount(b) > 0}

AllocatedForTx == {b \in BufNos : AllocatedForTxCount(b) > 0}

InFlightTx == {b \in BufNos : InFlightTxCount(b) > 0}

OwnedByDeviceRx == {b \in BufNos : OwnedByDeviceRxCount(b) > 0}

QueuedForStack == {b \in BufNos : QueuedForStackCount(b) > 0}

\* Number of frames the last handler delivered to the stack.
NumRecv(evs) == Cardinality({i \in 1..Len(evs) : evs[i].ev = "recv"})

Min(a, b) == IF a < b THEN a ELSE b

\* The frames a poll of the polling build can get from the driver: those
\* waiting, up to the receive on which the driver reports an error.
Available(frames, err_at) ==
    IF err_at = 0 THEN Len(frames) ELSE Min(Len(frames), err_at - 1)

(***************************************************************************)
(* C1.  Buffer conservation: in every reachable state of the irq build     *)
(* each of the N_DMA_BUFS pool buffers is in exactly one of the five       *)
(* states, once, and the sizes of the five states sum to N_DMA_BUFS.       *)
(***************************************************************************)
C1_BufferConservation ==
    mode = "irq" =>
       /\ \A b \in BufNos :
             FreeCount(b) + AllocatedForTxCount(b) + InFlightTxCount(b)
               + OwnedByDeviceRxCount(b) + QueuedForStackCount(b) = 1
       /\ Cardinality(Free) + Cardinality(AllocatedForTx) + Cardinality(InFlightTx)
            + Cardinality(OwnedByDeviceRx) + Cardinality(QueuedForStack) = N_DMA_BUFS

\* Buffers in three different states after send, rx allocation, rx
\* completion and a poll that delivered a frame.
C1_Witness ==
    /\ mode = "irq" /\ ~aborted
    /\ op.name = "poll" /\ NumRecv(events) > 0
    /\ InFlightTx # {} /\ OwnedByDeviceRx # {} /\ Free # {}

(***************************************************************************)
(* C3.  The transmit counter n_tx_bufs is at least 0 and at most           *)
(* N_TX_BUFS in every reachable state.                                     *)
(***************************************************************************)
C3_TxCounterBounded == 0 <= n_tx_bufs /\ n_tx_bufs <= N_TX_BUFS

\* A send turned away with the counter at its maximum.
C3_Witness ==
    /\ mode = "irq" /\ op.name = "send" /\ op.args[1] <= BUF_SIZE
    /\ n_tx_bufs = N_TX_BUFS /\ ret = 0

(***************************************************************************)
(* C4.  Every poll returns its budget minus the number of frames it        *)
(* delivered to the stack, and it delivers min(budget, frames available)   *)
(* frames, taking them off the front of the queue.                         *)
(***************************************************************************)
C4_PollBudget ==
    [][op'.name = "poll" =>
         LET budget == op'.args[1]
             processed == NumRecv(events')
             avail == IF mode = "irq" THEN Len(rx_queue)
                      ELSE Available(drv_frames, op'.args[2])
         IN /\ ~aborted'
            /\ ret' = budget - processed
            /\ processed = Min(budget, avail)
            /\ mode = "irq" => rx_queue' = SubSeq(rx_queue, processed + 1, Len(rx_queue))
            /\ mode = "polling" =>
                  drv_frames' = SubSeq(drv_frames, processed + 1, Len(drv_frames))]_vars

(***************************************************************************)
(* C5.  A poll with a budget of zero, or with no frame to take (empty rx   *)
(* queue; no frame waiting in the driver), returns its budget, delivers    *)
(* nothing and leaves the free pool, the rx queue and the driver's frames  *)
(* as they were.                                                           *)
(***************************************************************************)
C5_PollNoop ==
    [][(/\ op'.name = "poll"
        /\ \/ op'.args[1] = 0
           \/ mode = "irq" /\ rx_queue = <<>>
           \/ mode = "polling" /\ drv_frames = <<>>)
       => /\ ret' = op'.args[1]
          /\ events' = <<>>
          /\ free_pool' = free_pool
          /\ rx_queue' = rx_queue
          /\ drv_frames' = drv_frames
          /\ ~aborted']_vars

\* A poll of the irq build with budget left over and nothing delivered.
C5_Witness ==
    /\ mode = "irq" /\ op.name = "poll"
    /\ op.args[1] > 0 /\ ret = op.args[1] /\ events = <<>>

(***************************************************************************)
(* C2.  Free-list invariant: a buffer index is in the free pool ring       *)
(* exactly when the buffer has no other owner (device, rx queue, pending   *)
(* or allocated transmit), and no entry occurs in the ring twice.          *)
(***************************************************************************)
C2_FreeListInvariant ==
    mode = "irq" =>
       /\ \A b \in BufNos :
             FreeCount(b) > 0 <=>
                 AllocatedForTxCount(b) + InFlightTxCount(b)
                   + OwnedByDeviceRxCount(b) + QueuedForStackCount(b) = 0
       /\ \A i, j \in 1..Len(free_pool) : i # j => free_pool[i] # free_pool[j]

(***************************************************************************)
(* C6.  The rx queue never holds more than N_RX_BUFS entries, and an rx    *)
(* completion of one buffer that finds the queue full does not stop the    *)
(* program: the queue is left as it was and the frame's buffer goes back   *)
(* to the free pool.                                                       *)
(***************************************************************************)
C6_RxQueueFullDrops ==
    [][/\ Len(rx_queue') <= N_RX_BUFS
       /\ (/\ op'.name = "rx_complete"
           /\ op'.args[1] = 1
           /\ Len(rx_queue) = N_RX_BUFS)
          => /\ ~aborted'
             /\ rx_queue' = rx_queue
             /\ Count(free_pool', op'.args[2][1]) = 1
             /\ op'.args[2][1] \notin dev_rx']_vars

(***************************************************************************)
(* C7.  A send of an acceptable length, with the counter below N_TX_BUFS   *)
(* and the free pool empty, returns 0, leaves the counter as it was and    *)
(* touches no buffer, and the program goes on.                             *)
(***************************************************************************)
C7_SendPoolExhausted ==
    [][(/\ mode = "irq" /\ op'.name = "send"
        /\ op'.args[1] <= BUF_SIZE
        /\ n_tx_bufs < N_TX_BUFS
        /\ free_pool = <<>>)
       => /\ ret' = 0
          /\ n_tx_bufs' = n_tx_bufs
          /\ events' = <<>>
          /\ ~aborted']_vars

(***************************************************************************)
(* C8.  A send of the irq build with a length above BUF_SIZE returns 0     *)
(* and allocates nothing: the free pool, the counter and the transmit      *)
(* buffers are as before and no buffer is written.                         *)
(***************************************************************************)
C8_SendOversized ==
    [][(mode = "irq" /\ op'.name = "send" /\ op'.args[1] > BUF_SIZE)
       => /\ ret' = 0
          /\ free_pool' = free_pool
          /\ n_tx_bufs' = n_tx_bufs
          /\ tx_bufs' = tx_bufs /\ tx_lost' = tx_lost
          /\ events' = <<>>
          /\ ~aborted']_vars

\* An oversized send turned away although a buffer was free and the counter
\* below its maximum.
C8_Witness ==
    /\ mode = "irq" /\ op.name = "send" /\ op.args[1] > BUF_SIZE /\ ret = 0
    /\ free_pool # <<>> /\ n_tx_bufs < N_TX_BUFS

(***************************************************************************)
(* C9.  Transmit backpressure and recovery.  A send with the counter at    *)
(* N_TX_BUFS returns 0 and changes nothing; a tx completion takes the      *)
(* counter one down; and the send of an acceptable length that follows a   *)
(* tx completion returns its length and takes the counter one up.          *)
(***************************************************************************)
C9_TxBackpressure ==
    [][/\ (mode = "irq" /\ op'.name = "send" /\ n_tx_bufs = N_TX_BUFS)
          => /\ ret' = 0
             /\ <<free_pool, rx_queue, n_tx_bufs, tx_bufs, tx_lost, dev_rx>>'
                  = <<free_pool, rx_queue, n_tx_bufs, tx_bufs, tx_lost, dev_rx>>
             /\ events' = <<>> /\ ~aborted'
       /\ op'.name = "tx_complete"
          => /\ ~aborted'
             /\ n_tx_bufs' = n_tx_bufs - 1
       /\ (/\ op.name = "tx_complete" /\ ~aborted
           /\ op'.name = "send" /\ op'.args[1] <= BUF_SIZE)
          => /\ ret' = op'.args[1]
             /\ n_tx_bufs' = n_tx_bufs + 1
             /\ ~aborted']_vars

(***************************************************************************)
(* C10.  When the driver does not accept the frame, send returns 0 and     *)
(* the free pool and the counter are as they were before the call.         *)
(***************************************************************************)
C10_SendDriverFailure ==
    [][(op'.name = "send" /\ op'.args[2] = ETHIF_ERROR)
       => /\ ret' = 0
          /\ free_pool' = free_pool
          /\ n_tx_bufs' = n_tx_bufs]_vars

(***************************************************************************)
(* C11.  What send returns is 0 or the length it was given, never a part   *)
(* of it, and it is the length exactly when the frame was taken: in the    *)
(* irq build when a transmit buffer was counted, in the polling build      *)
(* when the driver reported no error.                                      *)
(***************************************************************************)
C11_SendAllOrNothing ==
    [][(op'.name = "send" /\ ~aborted') =>
         LET len == op'.args[1]
         IN /\ ret' \in {0, len}
            /\ mode = "irq" => (ret' = len <=> n_tx_bufs' = n_tx_bufs + 1)
            /\ mode = "polling" => (ret' = len <=> op'.args[2] = ETHIF_NOERROR)]_vars

\* A send of the irq build that took a frame shorter than the buffer.
C11_Witness ==
    /\ mode = "irq" /\ ~aborted /\ op.name = "send"
    /\ op.args[1] < BUF_SIZE /\ ret = op.args[1]

(***************************************************************************)
(* C12.  An rx completion for a frame that spans more than one buffer      *)
(* puts every one of its buffers back into the free pool, enqueues         *)
(* nothing and delivers nothing, so no later poll can deliver any part of  *)
(* it, and the program goes on.                                            *)
(***************************************************************************)
C12_SplitFrameDropped ==
    [][(op'.name = "rx_complete" /\ op'.args[1] > 1) =>
         LET cookies == op'.args[2]
         IN /\ ~aborted'
            /\ \A i \in 1..Len(cookies) :
                  /\ Count(free_pool', cookies[i]) = 1
                  /\ cookies[i] \notin dev_rx'
            /\ Len(free_pool') = Len(free_pool) + Len(cookies)
            /\ rx_queue' = rx_queue
            /\ NumRecv(events') = 0]_vars

(***************************************************************************)
(* C13.  From the freshly initialised pool, N_DMA_BUFS allocations in a    *)
(* row succeed with pairwise distinct handles and the next one fails.      *)
(* FreshAfter(k) is the state k such allocations leave: the first k        *)
(* entries init_buffers wrote handed out, the rest in the pool in order,   *)
(* nothing else in use.                                                    *)
(***************************************************************************)
FreshAfter(k) ==
    /\ mode = "irq" /\ ~aborted
    /\ free_pool = SubSeq(init_buffers.free_pool, k + 1, Len(init_buffers.free_pool))
    /\ dev_rx = {init_buffers.free_pool[i] : i \in 1..Min(k, Len(init_buffers.free_pool))}
    /\ rx_queue = <<>> /\ rx = <<>> /\ n_tx_bufs = 0
    /\ \A h \in Handles : tx_bufs[h] = 0 /\ tx_lost[h] = 0

C13_AllocateUntilExhausted ==
    [][\A k \in 0..N_DMA_BUFS :
         (/\ FreshAfter(k)
          /\ op'.name = "allocate_rx_buf" /\ op'.args[1] <= BUF_SIZE)
         => IF k < N_DMA_BUFS
            THEN /\ ret' # 0
                 /\ \E h \in BufNos \ dev_rx : ret' = paddr(h) /\ dev_rx' = dev_rx \cup {h}
                 /\ Cardinality(dev_rx') = k + 1
                 /\ Len(free_pool') = N_DMA_BUFS - (k + 1)
                 /\ ~aborted'
            ELSE /\ ret' = 0
                 /\ dev_rx' = dev_rx /\ free_pool' = free_pool
                 /\ ~aborted']_vars

\* The allocation after N_DMA_BUFS successful ones has failed.
C13_Witness ==
    /\ FreshAfter(N_DMA_BUFS)
    /\ op.name = "allocate_rx_buf" /\ op.args[1] <= BUF_SIZE /\ ret = 0

(***************************************************************************)
(* C14.  Allocate followed by release of the returned handle restores the  *)
(* free count, and an allocate right after the release succeeds.  The pair *)
(* is a send that took buffer h from the pool followed at once by the      *)
(* completion of h: the free count is back to what it was before the send  *)
(* (one more than after it), and alloc_dma_buf on the state the release    *)
(* leaves returns a buffer.                                                *)
(***************************************************************************)
C14_AllocateReleaseRestores ==
    [][(/\ mode = "irq" /\ ~aborted
        /\ op.name = "send" /\ ret > 0 /\ events # <<>>
        /\ events[1].buf # -1
        /\ op'.name = "tx_complete" /\ op'.args[1] = events[1].buf)
       => /\ ~aborted'
          /\ Len(free_pool') = Len(free_pool) + 1
          /\ (alloc_dma_buf(Entry).val)' # -1]_vars

(***************************************************************************)
(* C15.  Release rejects every misuse: a completion that releases an index *)
(* outside the pool, or an index that is already in the free pool, never   *)
(* adds an entry to the free pool.                                         *)
(***************************************************************************)
C15_ReleaseRejectsMisuse ==
    [][(/\ op'.name = "tx_complete"
        /\ \/ op'.args[1] \notin BufNos
           \/ Count(free_pool, op'.args[1]) > 0)
       => free_pool' = free_pool]_vars

(***************************************************************************)
(* C16.  Every hand-off of a buffer between CPU and device is preceded by  *)
(* exactly one matching cache operation.  An accepted send copies the      *)
(* frame and then cleans that buffer over the copied length, once, and     *)
(* does nothing else; a successful receive allocation invalidates the      *)
(* buffer whose address it returns, once; and in poll every delivery to    *)
(* the stack comes right after the invalidate of the same buffer over the  *)
(* same length, and every invalidate is followed by that delivery.         *)
(***************************************************************************)
C16_CacheBeforeHandOff ==
    mode = "irq" =>
      /\ (op.name = "send" /\ ~aborted /\ ret > 0) =>
            /\ Len(events) = 2
            /\ events[1] = Ev("memcpy", events[1].buf, op.args[1])
            /\ events[2] = Ev("clean", events[1].buf, op.args[1])
      /\ (op.name = "allocate_rx_buf" /\ ret # 0) =>
            \E b \in BufNos : ret = paddr(b) /\ events = <<Ev("invalidate", b, BUF_SIZE)>>
      /\ op.name = "poll" =>
            \A i \in 1..Len(events) :
               /\ events[i].ev = "recv" =>
                     i > 1 /\ events[i - 1] = Ev("invalidate", events[i].buf, events[i].len)
               /\ events[i].ev = "invalidate" =>
                     i < Len(events) /\ events[i + 1] = Ev("recv", events[i].buf, events[i].len)
               /\ events[i].ev \in {"recv", "invalidate", "free"}

\* A poll that delivered two frames, after a send and a receive allocation
\* have happened.
C16_Witness ==
    /\ mode = "irq" /\ op.name = "poll" /\ NumRecv(events) = 2
    /\ n_tx_bufs > 0

(***************************************************************************)
(* The context a handler of the irq build runs in: send and poll are the   *)
(* pico_device entry points the stack's thread calls; the three callbacks  *)
(* taking the driver's iface are called by the driver when it handles an   *)
(* interrupt.                                                              *)
(***************************************************************************)
Context(name) ==
    IF name \in {"send", "poll"} THEN "thread"
    ELSE IF name \in {"allocate_rx_buf", "rx_complete", "tx_complete"} THEN "irq"
    ELSE "none"

\* The last handler wrote the free pool (free_dma_buf's bufferWrite).
WritesFreePool == \E i \in 1..Len(events) : events[i].ev = "free"

(***************************************************************************)
(* C17.  Each ring of the irq build has a single producer and a single     *)
(* consumer: the rx queue grows only in rx-complete and shrinks only in    *)
(* poll, and any two handlers that write the free pool one after the other *)
(* run in the same context.                                                *)
(***************************************************************************)
C17_SingleProducerSingleConsumer ==
    [][mode = "irq" =>
         /\ Len(rx_queue') > Len(rx_queue) => op'.name = "rx_complete"
         /\ Len(rx_queue') < Len(rx_queue) => op'.name = "poll"
         /\ (WritesFreePool /\ WritesFreePool') => Context(op.name) = Context(op'.name)]_vars

(***************************************************************************)
(* C18.  Poll terminates without blocking.  With iters the number of times *)
(* the loop body was entered: a poll enters it at most budget times; every *)
(* entry but possibly the last takes one from the budget, and the last     *)
(* either does so too (the budget is then used up) or leaves the loop; and *)
(* the loop is left at the first receive that finds the queue empty (irq   *)
(* build) or reports an error or a length of zero (polling build), so the  *)
(* body is entered min(budget, frames available + 1) times.                *)
(***************************************************************************)
C18_PollTerminates ==
    [][op'.name = "poll" =>
         LET budget == op'.args[1]
             avail == IF mode = "irq" THEN Len(rx_queue)
                      ELSE Available(drv_frames, op'.args[2])
         IN /\ iters' <= budget
            /\ iters' <= avail + 1
            /\ ~aborted' =>
                  /\ iters' = Min(budget, avail + 1)
                  /\ \/ ret' = budget - iters' /\ ret' = 0
                     \/ ret' = budget - (iters' - 1) /\ iters' >= 1 /\ iters' = avail + 1]_vars

\* A poll with a budget of two that entered the loop body twice and left it
\* on the empty queue, after delivering one frame.
C18_Witness ==
    /\ op.name = "poll" /\ ~aborted /\ iters = 2
    /\ op.args[1] = 2 /\ ret = 1 /\ NumRecv(events) = 1
    /\ mode = "irq"

(***************************************************************************)
(* C20.  Frames reach the stack in arrival order, at most once, with the   *)
(* length they arrived with.  In the irq build a single-buffer rx-complete *)
(* appends the pair (buffer, length) it was given to the rx queue and no   *)
(* handler but poll takes anything off the queue; a poll that delivers k   *)
(* frames delivers the k oldest pairs of the queue, oldest first, each     *)
(* once and with its length, frees each buffer right after its delivery,   *)
(* and leaves the other pairs in the queue in their order.  In the polling *)
(* build a poll delivers the k oldest frames waiting in the driver, in     *)
(* order, and leaves the others.                                           *)
(***************************************************************************)
C20_InOrderAtMostOnce ==
    [][/\ (mode = "irq" /\ op'.name = "rx_complete" /\ op'.args[1] = 1 /\ ~aborted') =>
             rx_queue' = Append(rx_queue, [buf_no |-> op'.args[2][1],
                                           length |-> op'.args[3][1]])
       /\ (mode = "irq" /\ op'.name \notin {"rx_complete", "poll"}) => rx_queue' = rx_queue
       /\ (mode = "irq" /\ op'.name = "poll") =>
             LET k == NumRecv(events')
             IN /\ k <= Len(rx_queue)
                /\ rx_queue' = SubSeq(rx_queue, k + 1, Len(rx_queue))
                /\ Len(events') \in {3 * k, 3 * k - 1}
                /\ Len(events') = 3 * k - 1 => aborted'
                /\ \A j \in 1..k :
                      /\ events'[3 * j - 1] = Ev("recv", rx_queue[j].buf_no, rx_queue[j].length)
                      /\ 3 * j <= Len(events') =>
                            events'[3 * j] = Ev("free", rx_queue[j].buf_no, 0)
       /\ (mode = "polling" /\ op'.name = "poll") =>
             LET k == NumRecv(events')
             IN /\ k <= Len(drv_frames)
                /\ drv_frames' = SubSeq(drv_frames, k + 1, Len(drv_frames))
                /\ Len(events') = k
                /\ \A j \in 1..k : events'[j].len = drv_frames[j]]_vars

\* A poll has delivered two frames of different lengths.
C20_Witness ==
    /\ mode = "irq" /\ op.name = "poll" /\ ~aborted
    /\ NumRecv(events) = 2 /\ Len(events) = 6
    /\ events[2].len # events[5].len

\* Transmit buffers allocated and not yet completed, over the handles S.
RECURSIVE TxOutstanding(_)
TxOutstanding(S) ==
    IF S = {} THEN 0
    ELSE LET h == CHOOSE x \in S : TRUE
         IN tx_bufs[h] + tx_lost[h] + TxOutstanding(S \ {h})

(***************************************************************************)
(* C19.  Under any interleaving of the control thread's send with the      *)
(* interrupt handler's tx-complete, the counter n_tx_bufs equals the       *)
(* number of buffers allocated for transmit and not yet completed: no      *)
(* increment or decrement is lost.  Compared whenever no send is under     *)
(* way, so that a send between its allocation and its increment does not   *)
(* count against the claim.                                                *)
(***************************************************************************)
C19_TxCounterExact ==
    (mode = "irq" /\ pc = "idle") => n_tx_bufs = TxOutstanding(Handles)

====
